---------------------------- MODULE Spec2Model ----------------------------
(***************************************************************************)
(* Model of the book-file discovery / validation commands of the Readest   *)
(* native host (src-tauri/src/lib.rs) and of its directory scanner         *)
(* (src-tauri/src/dir_scanner.rs).                                         *)
(*                                                                         *)
(* Strings are sequences of one-character strings, so that lower-casing    *)
(* and the extraction of a file extension are computed, not assumed.       *)
(* A path is the sequence of its components (each a string).               *)
(***************************************************************************)
EXTENDS Integers, Sequences, FiniteSets, TLC

VARIABLES
    fs,          \* the filesystem: node -> [kind, name, size]
    paths,       \* validate_book_files: argument `paths`
    chunk_size,  \* validate_book_files: argument `chunk_size`
    idx,         \* validate_book_files: loop index `i`
    results,     \* validate_book_files: local `results`
    events,      \* "import-progress" events delivered to the window so far
    vpc,         \* validate_book_files: position in the function
    vret,        \* validate_book_files: value returned to the caller
    scope,       \* the paths the filesystem scope allows
    scope_checks,\* the paths read_dir has asked the scope about
    recursive,   \* read_dir: argument `recursive`
    extensions,  \* read_dir: argument `extensions`
    normalized_extensions, \* read_dir: local `normalized_extensions`
    files,       \* read_dir: local `files`
    rdIter,      \* read_dir: what the directory iterator has yet to yield
    rdOpened,    \* the directories read_dir has tried to open
    rdPc,        \* read_dir: position in the function
    rdRet,       \* read_dir: value returned to the caller
    fbIter,      \* find_book_files: what the walk has yet to yield
    fbFiles,     \* find_book_files: the paths collected so far
    fbPc,        \* find_book_files: position in the function
    fbRet,       \* find_book_files: value returned to the caller
    rdPrev,      \* the read_dir call that ended before the one in `rdvars`
    calls,       \* concurrent validate_book_files calls: call -> its state
    window       \* the events the window got from the concurrent calls

vvars == <<paths, chunk_size, idx, results, events, vpc, vret>>
rdvars == <<scope_checks, recursive, extensions, normalized_extensions,
            files, rdIter, rdOpened, rdPc, rdRet>>
fbvars == <<fbIter, fbFiles, fbPc, fbRet>>
xvars == <<rdPrev, calls, window>>
vars == <<fs, scope, xvars, vvars, rdvars, fbvars>>

----------------------------------------------------------------------------
(* Bounds of the model *)

\* longest `paths` argument given to validate_book_files
MaxPaths == 3
\* largest `chunk_size` argument given to validate_book_files
MaxChunk == 3
\* longest `paths` argument given to each of the concurrent calls
MaxConcPaths == 3

----------------------------------------------------------------------------
(* Strings *)

UpperChars == <<"A","B","C","D","E","F","G","H","I","J","K","L","M",
                "N","O","P","Q","R","S","T","U","V","W","X","Y","Z">>
LowerChars == <<"a","b","c","d","e","f","g","h","i","j","k","l","m",
                "n","o","p","q","r","s","t","u","v","w","x","y","z">>

\* char::to_lowercase on the ASCII letters; every other character is kept
LowerChar(c) ==
    IF \E k \in DOMAIN UpperChars : UpperChars[k] = c
    THEN LowerChars[CHOOSE k \in DOMAIN UpperChars : UpperChars[k] = c]
    ELSE c

\* str::to_lowercase
to_lowercase(s) == [k \in DOMAIN s |-> LowerChar(s[k])]

\* positions of '.' in a file name
DotPositions(name) == {k \in DOMAIN name : name[k] = "."}

\* Option<String> is a sequence of length 0 (None) or 1 (Some)
None == <<>>
Some(x) == <<x>>

\* Path::file_name: the last component of the path, None for an empty path
file_name(path) == IF path = <<>> THEN None ELSE Some(path[Len(path)])

\* Path::extension: the part of the file name after its last '.', None when
\* the name has no '.', or only a leading one (".bashrc"), or is ".."
extension(path) ==
    IF file_name(path) = None THEN None
    ELSE LET name == path[Len(path)]
             dots == DotPositions(name)
         IN  IF dots = {} \/ name = <<".", ".">> THEN None
             ELSE LET last == CHOOSE k \in dots : \A m \in dots : m <= k
                  IN  IF last = 1 THEN None
                      ELSE Some(SubSeq(name, last + 1, Len(name)))

----------------------------------------------------------------------------
(* The filesystem.  Node 0 is the directory handed to the scanner, nodes 1 *)
(* and 2 are its entries, node 3 is an entry of node 1.                    *)

Nodes == 0 .. 3
\* the value that stands for "no node": one past the last node
NoNode == Cardinality(Nodes)
parent(n) == CASE n = 0 -> NoNode [] n = 1 -> 0 [] n = 2 -> 0 [] n = 3 -> 1
children(n) == CASE n = 0 -> <<1, 2>> [] n = 1 -> <<3>> [] OTHER -> <<>>

\* kinds of node:
\*   "file"       regular file            "dir"     directory
\*   "dir_locked" directory without any permission (cannot be opened,
\*                its entries cannot be stat-ed)
\*   "symlink"    symbolic link to a regular file
\*   "other"      fifo, socket, device
\*   "err"        a slot of the parent's listing whose read fails
\*   "absent"     no such entry
Kinds == {"file", "dir", "dir_locked", "symlink", "other", "err", "absent"}

RootName == <<"b","o","o","k","s">>

RECURSIVE PathOf(_)
PathOf(n) == IF n = 0 THEN <<RootName>>
             ELSE Append(PathOf(parent(n)), fs[n].name)

NodeOf(path) == IF \E n \in Nodes : PathOf(n) = path
                THEN CHOOSE n \in Nodes : PathOf(n) = path
                ELSE NoNode

RECURSIVE Ancestors(_)
Ancestors(n) == IF n = 0 THEN {} ELSE {parent(n)} \cup Ancestors(parent(n))

\* Result<Metadata, io::Error>
MetaOk(len, ft) == [ok |-> TRUE, len |-> len, file_type |-> ft, err |-> ""]
MetaErr(e) == [ok |-> FALSE, len |-> 0, file_type |-> "", err |-> e]

\* std::fs::metadata(path): follows symbolic links; fails when the path
\* names nothing or when a directory on the way cannot be searched
metadata(path) ==
    LET n == NodeOf(path) IN
    IF n = NoNode THEN MetaErr("No such file or directory")
    ELSE IF \E a \in Ancestors(n) : fs[a].kind = "dir_locked"
    THEN MetaErr("Permission denied")
    ELSE IF \E a \in Ancestors(n) : fs[a].kind # "dir"
    THEN MetaErr("No such file or directory")
    ELSE CASE fs[n].kind \in {"file", "symlink"} -> MetaOk(fs[n].size, "file")
           [] fs[n].kind \in {"dir", "dir_locked"} -> MetaOk(4096, "dir")
           [] fs[n].kind = "other" -> MetaOk(0, "other")
           [] OTHER -> MetaErr("No such file or directory")

\* Path::exists: fs::metadata(path).is_ok(), so false as well for a path
\* that is there but whose metadata cannot be read
exists(path) == metadata(path).ok

----------------------------------------------------------------------------
(* validate_book_file *)

Ok(v) == [tag |-> "Ok", val |-> v]
Err(e) == [tag |-> "Err", val |-> e]
NoRet == [tag |-> "none", val |-> <<>>]

validate_book_file(path) ==
    IF ~exists(path) THEN Err("File does not exist")
    ELSE LET m == metadata(path) IN
         IF m.ok
         THEN IF m.len = 0 THEN Err("File is empty") ELSE Ok(<<>>)
         ELSE Err("Failed to read file metadata: " \o m.err)

----------------------------------------------------------------------------
(* validate_book_files *)

ImportProgress(total, processed, current) ==
    [total_files |-> total, processed_files |-> processed,
     current_file |-> current]

ImportValidation(path, success, error) ==
    [path |-> path, success |-> success, error |-> error]

\* mutant: the event of the last index is forgotten
ShouldEmit_NoLast(i, k, total_files) == i % k = 0

\* the condition under which iteration i emits a progress event
ShouldEmit(i, k, total_files) == i % k = 0 \/ i = total_files - 1

\* Path::new(path).file_name().unwrap_or_default()
CurrentFile(path) == IF file_name(path) = None THEN <<>> ELSE file_name(path)[1]

\* mutant: the record carries the file name instead of the path given
ValidationOf_FileName(path) ==
    LET r == validate_book_file(path) IN
    IF r.tag = "Ok" THEN ImportValidation(<<path[Len(path)]>>, TRUE, None)
    ELSE ImportValidation(<<path[Len(path)]>>, FALSE, Some(r.val))

\* the entry pushed on `results` for one path
ValidationOf(path) ==
    LET r == validate_book_file(path) IN
    IF r.tag = "Ok" THEN ImportValidation(path, TRUE, None)
    ELSE ImportValidation(path, FALSE, Some(r.val))

SeqsUpTo(S, n) == UNION {[1 .. m -> S] : m \in 0 .. n}

\* the paths a caller asks about: the entries of the tree, present or not
CandidatePaths == {PathOf(n) : n \in 1 .. 3}

\* the host dispatches the command
InvokeValidate ==
    /\ vpc = "idle"
    /\ \E ps \in SeqsUpTo(CandidatePaths, MaxPaths), k \in 0 .. MaxChunk :
          /\ paths' = ps
          /\ chunk_size' = k
    /\ idx' = 0
    /\ results' = <<>>
    /\ vpc' = "loop"
    /\ UNCHANGED <<fs, scope, xvars, rdvars, fbvars, events, vret>>

\* `i % chunk_size` with chunk_size = 0 panics
PanicModZero ==
    /\ vpc = "loop" /\ idx < Len(paths) /\ chunk_size = 0
    /\ vpc' = "panicked"
    /\ UNCHANGED <<fs, scope, xvars, rdvars, fbvars, paths, chunk_size, idx, results, events, vret>>

\* mutant: the event counts the paths done before this one
EmitProgress_ZeroBased ==
    /\ vpc = "loop" /\ idx < Len(paths) /\ chunk_size > 0
    /\ ShouldEmit(idx, chunk_size, Len(paths))
    /\ events' = Append(events,
                   ImportProgress(Len(paths), idx, CurrentFile(paths[idx + 1])))
    /\ vpc' = "validate"
    /\ UNCHANGED <<fs, scope, xvars, rdvars, fbvars, paths, chunk_size, idx, results, vret>>

\* mutant: the path is validated first and its event emitted afterwards
EmitProgress_AfterPush ==
    /\ vpc = "loop" /\ idx < Len(paths) /\ chunk_size > 0
    /\ ShouldEmit(idx, chunk_size, Len(paths))
    /\ results' = Append(results, ValidationOf(paths[idx + 1]))
    /\ events' = Append(events,
                   ImportProgress(Len(paths), idx + 1, CurrentFile(paths[idx + 1])))
    /\ idx' = idx + 1
    /\ UNCHANGED <<fs, scope, xvars, rdvars, fbvars, paths, chunk_size, vpc, vret>>

\* window.emit(...) succeeds
EmitProgress ==
    /\ vpc = "loop" /\ idx < Len(paths) /\ chunk_size > 0
    /\ ShouldEmit(idx, chunk_size, Len(paths))
    /\ events' = Append(events,
                   ImportProgress(Len(paths), idx + 1, CurrentFile(paths[idx + 1])))
    /\ vpc' = "validate"
    /\ UNCHANGED <<fs, scope, xvars, rdvars, fbvars, paths, chunk_size, idx, results, vret>>

\* mutant: a failed emission ends the loop and hands back what was validated
EmitFails_Partial ==
    /\ vpc = "loop" /\ idx < Len(paths) /\ chunk_size > 0
    /\ ShouldEmit(idx, chunk_size, Len(paths))
    /\ vret' = Ok(results)
    /\ vpc' = "failed"
    /\ UNCHANGED <<fs, scope, xvars, rdvars, fbvars, paths, chunk_size, idx, results, events>>

\* window.emit(...) fails: `?` returns the error, `results` is dropped
EmitFails ==
    /\ vpc = "loop" /\ idx < Len(paths) /\ chunk_size > 0
    /\ ShouldEmit(idx, chunk_size, Len(paths))
    /\ vret' = Err("emit failed")
    /\ vpc' = "failed"
    /\ UNCHANGED <<fs, scope, xvars, rdvars, fbvars, paths, chunk_size, idx, results, events>>

\* the iteration emits nothing
NoEmit ==
    /\ vpc = "loop" /\ idx < Len(paths) /\ chunk_size > 0
    /\ ~ShouldEmit(idx, chunk_size, Len(paths))
    /\ vpc' = "validate"
    /\ UNCHANGED <<fs, scope, xvars, rdvars, fbvars, paths, chunk_size, idx, results, events, vret>>

\* mutant: a path that fails validation ends the call with its error
ValidateFile_Abort ==
    /\ vpc = "validate"
    /\ LET r == validate_book_file(paths[idx + 1]) IN
       IF r.tag = "Ok"
       THEN /\ results' = Append(results, ValidationOf(paths[idx + 1]))
            /\ idx' = idx + 1
            /\ vpc' = "loop"
            /\ vret' = vret
       ELSE /\ vret' = Err(r.val)
            /\ vpc' = "failed"
            /\ UNCHANGED <<idx, results>>
    /\ UNCHANGED <<fs, scope, xvars, rdvars, fbvars, paths, chunk_size, events>>

\* validate_book_file(path) and results.push(result)
ValidateFile ==
    /\ vpc = "validate"
    /\ results' = Append(results, ValidationOf(paths[idx + 1]))
    /\ idx' = idx + 1
    /\ vpc' = "loop"
    /\ UNCHANGED <<fs, scope, xvars, rdvars, fbvars, paths, chunk_size, events, vret>>

\* the loop is over: Ok(results)
ReturnResults ==
    /\ vpc = "loop" /\ idx = Len(paths)
    /\ vret' = Ok(results)
    /\ vpc' = "done"
    /\ UNCHANGED <<fs, scope, xvars, rdvars, fbvars, paths, chunk_size, idx, results, events>>

----------------------------------------------------------------------------
(* Directory iteration: std::fs::read_dir and walkdir::WalkDir *)

\* what an iterator has yet to yield: the root of a walk ("root"), an entry
\* of a listing ("ent"), or a read of a listing that fails ("err")
Item(t, n) == [t |-> t, n |-> n]

\* the entries std::fs::read_dir yields for an open directory, in listing
\* order; a slot that cannot be read yields an error
ListingOf(n) ==
    LET cs == SelectSeq(children(n), LAMBDA c : fs[c].kind # "absent")
    IN  [k \in DOMAIN cs |->
            IF fs[cs[k]].kind = "err" THEN Item("err", cs[k])
            ELSE Item("ent", cs[k])]

\* std::fs::read_dir(path): opens the directory
fs_read_dir(path) ==
    LET n == NodeOf(path) IN
    IF ~metadata(path).ok THEN Err(metadata(path).err)
    ELSE CASE fs[n].kind = "dir" -> Ok(ListingOf(n))
           [] fs[n].kind = "dir_locked" -> Err("Permission denied")
           [] OTHER -> Err("Not a directory")

\* DirEntry::file_type of a walkdir entry: symbolic links are not followed
file_type(n) ==
    CASE fs[n].kind = "file" -> "file"
      [] fs[n].kind \in {"dir", "dir_locked"} -> "dir"
      [] fs[n].kind = "symlink" -> "symlink"
      [] OTHER -> "other"

\* mutant: Path::exists is asked instead of Path::is_file
is_file_Exists(path) == metadata(path).ok

\* Path::is_file: follows symbolic links, false when metadata fails
is_file(path) == metadata(path).ok /\ metadata(path).file_type = "file"

\* WalkDir::new(path).into_iter()
WalkDirNew(path) == <<Item("root", NodeOf(path))>>

\* whether the next item of a walk is Ok(entry): the root is stat-ed when it
\* is first yielded
YieldsOk(x) ==
    \/ x.t = "ent"
    \/ x.t = "root" /\ metadata(PathOf(x.n)).ok

\* the walk after it has yielded Ok(entry) for its first item: a directory
\* is opened at once, its entries (or the error of opening it) come next,
\* before the rest of the parent's listing (depth first)
WalkDirAfter(iter) ==
    LET x == Head(iter) IN
    IF file_type(x.n) = "dir"
    THEN LET r == fs_read_dir(PathOf(x.n)) IN
         IF r.tag = "Ok" THEN r.val \o Tail(iter)
         ELSE <<Item("err", x.n)>> \o Tail(iter)
    ELSE Tail(iter)

\* the directories a walk opens when it yields its first item
WalkDirOpens(iter) ==
    IF file_type(Head(iter).n) = "dir" THEN {Head(iter).n} ELSE {}

----------------------------------------------------------------------------
(* dir_scanner.rs: read_dir *)

ScannedFile(path, size) == [path |-> path, size |-> size]

\* std::fs::metadata(path).map(|m| m.len()).unwrap_or(0)
SizeOf(path) == IF metadata(path).ok THEN metadata(path).len ELSE 0

Star == <<"*">>

\* mutant: the file's extension is compared as it is spelled
process_file_entry_CaseSensitive(path, exts) ==
    IF exts = {} \/ Star \in exts
    THEN Some(ScannedFile(path, SizeOf(path)))
    ELSE IF extension(path) # None /\ extension(path)[1] \in exts
         THEN Some(ScannedFile(path, SizeOf(path)))
         ELSE None

\* process_file_entry(path, extensions) -> Option<ScannedFile>
process_file_entry(path, exts) ==
    IF exts = {} \/ Star \in exts
    THEN Some(ScannedFile(path, SizeOf(path)))
    ELSE IF extension(path) # None
            /\ to_lowercase(extension(path)[1]) \in exts
         THEN Some(ScannedFile(path, SizeOf(path)))
         ELSE None

\* scope.is_allowed(&path_buf)
is_allowed(path) == path \in scope

\* the `path` argument: the root of the tree
RootPath == PathOf(0)

\* the `extensions` arguments tried (a Vec<String>, of which the code only
\* asks whether it is empty and what it contains)
BookExtensions == { <<"e","p","u","b">>, <<"p","d","f">>, <<"m","o","b","i">>,
                    <<"a","z","w","3">>, <<"t","x","t">> }
ExtensionArgs == { {}, {Star}, {Star, <<"p","d","f">>},
                   {<<"E","P","U","B">>, <<"j","p","g">>}, BookExtensions }

\* the host dispatches read_dir
InvokeReadDir ==
    /\ rdPc = "idle" /\ fbPc \in {"idle", "done"}
    /\ \E r \in BOOLEAN, e \in ExtensionArgs :
          /\ recursive' = r
          /\ extensions' = e
    /\ rdPc' = "scope"
    /\ UNCHANGED <<fs, scope, xvars, vvars, fbvars, scope_checks,
                   normalized_extensions, files, rdIter, rdOpened, rdRet>>

\* mutant: the refusal is only logged and the scan goes on
ReadDirDenied_Proceed ==
    /\ rdPc = "scope" /\ ~is_allowed(RootPath)
    /\ scope_checks' = Append(scope_checks, RootPath)
    /\ files' = <<>>
    /\ normalized_extensions' = {to_lowercase(e) : e \in extensions}
    /\ IF recursive
       THEN rdIter' = WalkDirNew(RootPath) /\ rdPc' = "walk"
       ELSE rdIter' = <<>> /\ rdPc' = "open"
    /\ UNCHANGED <<fs, scope, xvars, vvars, fbvars, recursive, extensions,
                   rdOpened, rdRet>>

\* the scope refuses the path
ReadDirDenied ==
    /\ rdPc = "scope" /\ ~is_allowed(RootPath)
    /\ scope_checks' = Append(scope_checks, RootPath)
    /\ rdRet' = Err("Permission denied: Path not in filesystem scope")
    /\ rdPc' = "done"
    /\ UNCHANGED <<fs, scope, xvars, vvars, fbvars, recursive, extensions,
                   normalized_extensions, files, rdIter, rdOpened>>

\* the scope allows the path: the locals are set up
ReadDirAllowed ==
    /\ rdPc = "scope" /\ is_allowed(RootPath)
    /\ scope_checks' = Append(scope_checks, RootPath)
    /\ files' = <<>>
    /\ normalized_extensions' = {to_lowercase(e) : e \in extensions}
    /\ IF recursive
       THEN rdIter' = WalkDirNew(RootPath) /\ rdPc' = "walk"
       ELSE rdIter' = <<>> /\ rdPc' = "open"
    /\ UNCHANGED <<fs, scope, xvars, vvars, fbvars, recursive, extensions,
                   rdOpened, rdRet>>

\* files.push(scanned_file) when process_file_entry gives one
Pushed(fls, path, exts) ==
    IF process_file_entry(path, exts) # None
    THEN Append(fls, process_file_entry(path, exts)[1])
    ELSE fls

\* recursive mode, Ok(entry)
RdWalkEntry ==
    /\ rdPc = "walk" /\ rdIter # <<>> /\ YieldsOk(Head(rdIter))
    /\ rdIter' = WalkDirAfter(rdIter)
    /\ rdOpened' = rdOpened \cup WalkDirOpens(rdIter)
    /\ files' = IF file_type(Head(rdIter).n) = "file"
                THEN Pushed(files, PathOf(Head(rdIter).n), normalized_extensions)
                ELSE files
    /\ UNCHANGED <<fs, scope, xvars, vvars, fbvars, scope_checks, recursive,
                   extensions, normalized_extensions, rdPc, rdRet>>

\* mutant: an entry that cannot be read ends the scan with its error
RdWalkError_Abort ==
    /\ rdPc = "walk" /\ rdIter # <<>> /\ ~YieldsOk(Head(rdIter))
    /\ rdRet' = Err("Failed to read directory: " \o "walk error")
    /\ rdPc' = "done"
    /\ UNCHANGED <<fs, scope, xvars, vvars, fbvars, scope_checks, recursive,
                   extensions, normalized_extensions, files, rdIter, rdOpened>>

\* recursive mode, Err(e): a warning is logged
RdWalkError ==
    /\ rdPc = "walk" /\ rdIter # <<>> /\ ~YieldsOk(Head(rdIter))
    /\ rdIter' = Tail(rdIter)
    /\ UNCHANGED <<fs, scope, xvars, vvars, fbvars, scope_checks, recursive,
                   extensions, normalized_extensions, files, rdOpened,
                   rdPc, rdRet>>

\* non-recursive mode, std::fs::read_dir(&path_buf) is Ok(entries)
RdOpen ==
    /\ rdPc = "open" /\ fs_read_dir(RootPath).tag = "Ok"
    /\ rdIter' = fs_read_dir(RootPath).val
    /\ rdOpened' = rdOpened \cup {NodeOf(RootPath)}
    /\ rdPc' = "list"
    /\ UNCHANGED <<fs, scope, xvars, vvars, fbvars, scope_checks, recursive,
                   extensions, normalized_extensions, files, rdRet>>

\* non-recursive mode, std::fs::read_dir(&path_buf) is Err(e)
RdOpenFails ==
    /\ rdPc = "open" /\ fs_read_dir(RootPath).tag = "Err"
    /\ rdOpened' = rdOpened \cup {NodeOf(RootPath)}
    /\ rdRet' = Err("Failed to read directory: " \o fs_read_dir(RootPath).val)
    /\ rdPc' = "done"
    /\ UNCHANGED <<fs, scope, xvars, vvars, fbvars, scope_checks, recursive,
                   extensions, normalized_extensions, files, rdIter>>

\* non-recursive mode, Ok(entry)
RdListEntry ==
    /\ rdPc = "list" /\ rdIter # <<>> /\ Head(rdIter).t = "ent"
    /\ rdIter' = Tail(rdIter)
    /\ files' = IF is_file(PathOf(Head(rdIter).n))
                THEN Pushed(files, PathOf(Head(rdIter).n), normalized_extensions)
                ELSE files
    /\ UNCHANGED <<fs, scope, xvars, vvars, fbvars, scope_checks, recursive,
                   extensions, normalized_extensions, rdOpened, rdPc, rdRet>>

\* non-recursive mode, Err(e): a warning is logged
RdListError ==
    /\ rdPc = "list" /\ rdIter # <<>> /\ Head(rdIter).t = "err"
    /\ rdIter' = Tail(rdIter)
    /\ UNCHANGED <<fs, scope, xvars, vvars, fbvars, scope_checks, recursive,
                   extensions, normalized_extensions, files, rdOpened,
                   rdPc, rdRet>>

\* Ok(files)
RdReturn ==
    /\ rdPc \in {"walk", "list"} /\ rdIter = <<>>
    /\ rdRet' = Ok(files)
    /\ rdPc' = "done"
    /\ UNCHANGED <<fs, scope, xvars, vvars, fbvars, scope_checks, recursive,
                   extensions, normalized_extensions, files, rdIter, rdOpened>>

\* the host dispatches read_dir once more, after the first call has ended;
\* what the first call was given and what it returned is kept
ReadDirAgain ==
    /\ rdPc = "done" /\ ~rdPrev.called
    /\ rdPrev' = [called |-> TRUE, recursive |-> recursive,
                  extensions |-> extensions, ret |-> rdRet]
    /\ \E r \in BOOLEAN, e \in ExtensionArgs :
          /\ recursive' = r
          /\ extensions' = e
    /\ scope_checks' = <<>>
    /\ normalized_extensions' = {}
    /\ files' = <<>>
    /\ rdIter' = <<>>
    /\ rdOpened' = {}
    /\ rdRet' = NoRet
    /\ rdPc' = "scope"
    /\ UNCHANGED <<fs, scope, calls, window, vvars, fbvars>>

----------------------------------------------------------------------------
(* lib.rs: find_book_files *)

\* the filter of find_book_files: the entry's extension, lower-cased, is one
\* of book_extensions
IsBookPath(path) ==
    /\ extension(path) # None
    /\ to_lowercase(extension(path)[1]) \in BookExtensions

\* the host dispatches find_book_files: WalkDir::new(path).into_iter()
InvokeFind ==
    /\ fbPc = "idle" /\ rdPc \in {"idle", "done"}
    /\ fbIter' = WalkDirNew(RootPath)
    /\ fbFiles' = <<>>
    /\ fbPc' = "walk"
    /\ UNCHANGED <<fs, scope, xvars, vvars, rdvars, fbRet>>

\* mutant: the entry is looked at but the walk does not move past it
FbEntry_NoAdvance ==
    /\ fbPc = "walk" /\ fbIter # <<>> /\ YieldsOk(Head(fbIter))
    /\ fbFiles' = IF IsBookPath(PathOf(Head(fbIter).n))
                     /\ PathOf(Head(fbIter).n) \notin {fbFiles[k] : k \in DOMAIN fbFiles}
                  THEN Append(fbFiles, PathOf(Head(fbIter).n))
                  ELSE fbFiles
    /\ UNCHANGED <<fs, scope, xvars, vvars, rdvars, fbIter, fbPc, fbRet>>

\* an Ok(entry) goes through the filter and is mapped to its path
FbEntry ==
    /\ fbPc = "walk" /\ fbIter # <<>> /\ YieldsOk(Head(fbIter))
    /\ fbIter' = WalkDirAfter(fbIter)
    /\ fbFiles' = IF IsBookPath(PathOf(Head(fbIter).n))
                  THEN Append(fbFiles, PathOf(Head(fbIter).n))
                  ELSE fbFiles
    /\ UNCHANGED <<fs, scope, xvars, vvars, rdvars, fbPc, fbRet>>

\* mutant: an entry that cannot be read ends the search with its error
FbError_Abort ==
    /\ fbPc = "walk" /\ fbIter # <<>> /\ ~YieldsOk(Head(fbIter))
    /\ fbRet' = Err("walk error")
    /\ fbPc' = "done"
    /\ UNCHANGED <<fs, scope, xvars, vvars, rdvars, fbIter, fbFiles>>

\* an Err(e) is dropped by filter_map(|entry| entry.ok())
FbError ==
    /\ fbPc = "walk" /\ fbIter # <<>> /\ ~YieldsOk(Head(fbIter))
    /\ fbIter' = Tail(fbIter)
    /\ UNCHANGED <<fs, scope, xvars, vvars, rdvars, fbFiles, fbPc, fbRet>>

\* collect() and Ok(files)
FbReturn ==
    /\ fbPc = "walk" /\ fbIter = <<>>
    /\ fbRet' = Ok(fbFiles)
    /\ fbPc' = "done"
    /\ UNCHANGED <<fs, scope, xvars, vvars, rdvars, fbIter, fbFiles>>

----------------------------------------------------------------------------
(* Filesystems *)

Node(kind, name, size) == [kind |-> kind, name |-> name, size |-> size]

\* the trees validate_book_files is run against
ValidateTrees ==
    { [n \in Nodes |->
         CASE n = 0 -> Node("dir", RootName, 0)
           [] n = 1 -> Node(k1, <<"s","u","b">>, 0)
           [] n = 2 -> n2
           [] n = 3 -> Node("file", <<"d",".","p","d","f">>, 20)] :
      k1 \in {"dir", "dir_locked"},
      n2 \in { Node("file", <<"b",".","t","x","t">>, 0),
               Node("file", <<"b",".","t","x","t">>, 10),
               Node("absent", <<"b",".","t","x","t">>, 0) } }

\* the trees the scanner is run against
File(name, size) == Node("file", name, size)
Absent == Node("absent", <<"-">>, 0)

Entry1 == { File(<<"a",".","e","p","u","b">>, 10),
            Node("symlink", <<"l",".","p","d","f">>, 30),
            Absent }
Dir1 == { Node("dir", <<"s","u","b">>, 0),
          Node("dir", <<"d",".","e","p","u","b">>, 0),
          Node("dir_locked", <<"s","u","b">>, 0) }
Entry2 == { File(<<"B",".","P","D","F">>, 10),
            File(<<"c",".","j","p","g">>, 5),
            File(<<"n","o","e","x","t">>, 0),
            File(<<".","t","x","t">>, 7),
            Node("other", <<"f",".","t","x","t">>, 0),
            Node("err", <<"?">>, 0),
            Absent }
Entry3 == { File(<<"e",".","t","a","r",".","T","x","t">>, 20),
            File(<<"g",".","j","p","g">>, 20),
            Node("dir", <<"x",".","m","o","b","i">>, 0),
            Absent }

Tree(n0, n1, n2, n3) ==
    [n \in Nodes |-> CASE n = 0 -> n0 [] n = 1 -> n1 [] n = 2 -> n2 [] n = 3 -> n3]

ScanTrees ==
    {Tree(Node("dir", RootName, 0), n1, n2, Absent) : n1 \in Entry1, n2 \in Entry2}
    \cup {Tree(Node("dir", RootName, 0), n1, n2, n3) :
             n1 \in Dir1, n2 \in Entry2, n3 \in Entry3}
    \cup {Tree(Node(k, RootName, 10), Absent, Absent, Absent) :
             k \in {"absent", "dir_locked", "file"}}

ValidateIdle ==
    /\ paths = <<>>
    /\ chunk_size = 0
    /\ idx = 0
    /\ results = <<>>
    /\ events = <<>>
    /\ vpc = "idle"
    /\ vret = NoRet

ReadDirIdle ==
    /\ scope_checks = <<>>
    /\ recursive = FALSE
    /\ extensions = {}
    /\ normalized_extensions = {}
    /\ files = <<>>
    /\ rdIter = <<>>
    /\ rdOpened = {}
    /\ rdPc = "idle"
    /\ rdRet = NoRet

FindIdle ==
    /\ fbIter = <<>>
    /\ fbFiles = <<>>
    /\ fbPc = "idle"
    /\ fbRet = NoRet

\* no earlier read_dir call
NoCall == [called |-> FALSE, recursive |-> FALSE, extensions |-> {}, ret |-> NoRet]

\* the concurrent validate_book_files calls
Calls == {1, 2}

\* a call that has not been dispatched
CallIdle == [paths |-> <<>>, chunk_size |-> 0, idx |-> 0, results |-> <<>>,
             pc |-> "idle", ret |-> NoRet]

ExtraIdle ==
    /\ rdPrev = NoCall
    /\ calls = [c \in Calls |-> CallIdle]
    /\ window = <<>>

InitValidate ==
    /\ fs \in ValidateTrees
    /\ scope = {}
    /\ ValidateIdle
    /\ ReadDirIdle
    /\ FindIdle
    /\ ExtraIdle

InitScan ==
    /\ fs \in ScanTrees
    /\ scope \in {{}, {PathOf(0)}}
    /\ ValidateIdle
    /\ ReadDirIdle
    /\ FindIdle
    /\ ExtraIdle

NextScan ==
    \/ InvokeReadDir
    \/ ReadDirDenied
    \/ ReadDirAllowed
    \/ RdWalkEntry
    \/ RdWalkError
    \/ RdOpen
    \/ RdOpenFails
    \/ RdListEntry
    \/ RdListError
    \/ RdReturn
    \/ InvokeFind
    \/ FbEntry
    \/ FbError
    \/ FbReturn

SpecScan == InitScan /\ [][NextScan]_vars

\* read_dir called twice on the same tree
NextScanTwice ==
    \/ InvokeReadDir
    \/ ReadDirDenied
    \/ ReadDirAllowed
    \/ RdWalkEntry
    \/ RdWalkError
    \/ RdOpen
    \/ RdOpenFails
    \/ RdListEntry
    \/ RdListError
    \/ RdReturn
    \/ ReadDirAgain

SpecScanTwice == InitScan /\ [][NextScanTwice]_vars

\* the caller hands the paths find_book_files returned to
\* validate_book_files, with a chunk size of at least 1
InvokeValidateFound ==
    /\ fbPc = "done" /\ vpc = "idle"
    /\ paths' = fbRet.val
    /\ \E k \in 1 .. MaxChunk : chunk_size' = k
    /\ idx' = 0
    /\ results' = <<>>
    /\ vpc' = "loop"
    /\ UNCHANGED <<fs, scope, xvars, rdvars, fbvars, events, vret>>

----------------------------------------------------------------------------
(* Concurrent validate_book_files calls.  Every call has its own arguments *)
(* and locals; the window is the one thing the calls have in common.  An   *)
(* event in `window` is tagged with the call that emitted it.              *)

\* the arguments the concurrent calls are given: call c gets the first n
\* paths of a list that alternates between the two files, call 1 starting
\* with one file and call 2 with the other, so that neighbouring paths of
\* one call, and the same positions of the two calls, validate differently
ConcPaths(c, n) ==
    [j \in 1 .. n |-> IF (j + c) % 2 = 0 THEN PathOf(2) ELSE PathOf(3)]
ConcChunks == {1, 2}

\* the host dispatches call c
CInvoke(c) ==
    /\ calls[c].pc = "idle"
    /\ \E n \in 0 .. MaxConcPaths, k \in ConcChunks :
          calls' = [calls EXCEPT ![c] =
                       [paths |-> ConcPaths(c, n), chunk_size |-> k, idx |-> 0,
                        results |-> <<>>, pc |-> "loop", ret |-> NoRet]]
    /\ UNCHANGED <<fs, scope, rdPrev, window, vvars, rdvars, fbvars>>

\* call c: window.emit(...) succeeds
CEmit(c) ==
    LET cl == calls[c] IN
    /\ cl.pc = "loop" /\ cl.idx < Len(cl.paths)
    /\ ShouldEmit(cl.idx, cl.chunk_size, Len(cl.paths))
    /\ window' = Append(window,
                   [call |-> c,
                    event |-> ImportProgress(Len(cl.paths), cl.idx + 1,
                                             CurrentFile(cl.paths[cl.idx + 1]))])
    /\ calls' = [calls EXCEPT ![c].pc = "validate"]
    /\ UNCHANGED <<fs, scope, rdPrev, vvars, rdvars, fbvars>>

\* call c: window.emit(...) fails
CEmitFails(c) ==
    LET cl == calls[c] IN
    /\ cl.pc = "loop" /\ cl.idx < Len(cl.paths)
    /\ ShouldEmit(cl.idx, cl.chunk_size, Len(cl.paths))
    /\ calls' = [calls EXCEPT ![c].pc = "failed", ![c].ret = Err("emit failed")]
    /\ UNCHANGED <<fs, scope, rdPrev, window, vvars, rdvars, fbvars>>

\* call c: the iteration emits nothing
CNoEmit(c) ==
    LET cl == calls[c] IN
    /\ cl.pc = "loop" /\ cl.idx < Len(cl.paths)
    /\ ~ShouldEmit(cl.idx, cl.chunk_size, Len(cl.paths))
    /\ calls' = [calls EXCEPT ![c].pc = "validate"]
    /\ UNCHANGED <<fs, scope, rdPrev, window, vvars, rdvars, fbvars>>

\* mutant: `results` is one buffer that all the calls push to
CValidate_SharedResults(c) ==
    LET cl == calls[c]
        v == ValidationOf(cl.paths[cl.idx + 1])
    IN
    /\ cl.pc = "validate"
    /\ calls' = [d \in Calls |->
                    IF d = c
                    THEN [cl EXCEPT !.results = Append(@, v),
                                    !.idx = @ + 1, !.pc = "loop"]
                    ELSE [calls[d] EXCEPT !.results = Append(@, v)]]
    /\ UNCHANGED <<fs, scope, rdPrev, window, vvars, rdvars, fbvars>>

\* call c: validate_book_file(path) and results.push(result)
CValidate(c) ==
    LET cl == calls[c] IN
    /\ cl.pc = "validate"
    /\ calls' = [calls EXCEPT
                    ![c].results = Append(@, ValidationOf(cl.paths[cl.idx + 1])),
                    ![c].idx = @ + 1,
                    ![c].pc = "loop"]
    /\ UNCHANGED <<fs, scope, rdPrev, window, vvars, rdvars, fbvars>>

\* call c: Ok(results)
CReturn(c) ==
    LET cl == calls[c] IN
    /\ cl.pc = "loop" /\ cl.idx = Len(cl.paths)
    /\ calls' = [calls EXCEPT ![c].pc = "done", ![c].ret = Ok(cl.results)]
    /\ UNCHANGED <<fs, scope, rdPrev, window, vvars, rdvars, fbvars>>

\* the trees the concurrent calls are run against: the second file exists
\* and is not empty, the directory of the first can or cannot be opened
ConcTrees == {t \in ValidateTrees : t[2].size # 0}

InitConcurrent ==
    /\ fs \in ConcTrees
    /\ scope = {}
    /\ ValidateIdle
    /\ ReadDirIdle
    /\ FindIdle
    /\ ExtraIdle

\* the host runs the calls in any interleaving
NextConcurrent ==
    \/ \E c \in Calls : CInvoke(c)
    \/ \E c \in Calls : CEmit(c)
    \/ \E c \in Calls : CEmitFails(c)
    \/ \E c \in Calls : CNoEmit(c)
    \/ \E c \in Calls : CValidate(c)
    \/ \E c \in Calls : CReturn(c)
    \/ InvokeFind
    \/ FbEntry
    \/ FbError
    \/ FbReturn

SpecConcurrent == InitConcurrent /\ [][NextConcurrent]_vars

InitPipeline ==
    /\ fs \in ScanTrees
    /\ scope = {}
    /\ ValidateIdle
    /\ ReadDirIdle
    /\ FindIdle
    /\ ExtraIdle

\* discovery, then validation of what was discovered
NextPipeline ==
    \/ InvokeFind
    \/ FbEntry
    \/ FbError
    \/ FbReturn
    \/ InvokeValidateFound
    \/ EmitProgress
    \/ EmitFails
    \/ NoEmit
    \/ ValidateFile
    \/ ReturnResults

\* both commands run without waiting on anything but the filesystem and
\* the window: a step that can be taken is taken
SpecPipeline == InitPipeline /\ [][NextPipeline]_vars /\ WF_vars(NextPipeline)

NextValidate ==
    \/ InvokeValidate
    \/ PanicModZero
    \/ EmitProgress
    \/ EmitFails
    \/ NoEmit
    \/ ValidateFile
    \/ ReturnResults

SpecValidate == InitValidate /\ [][NextValidate]_vars

----------------------------------------------------------------------------
(* Properties of validate_book_files *)

\* the indices of `paths` whose progress event has been delivered, with
\* the number of events delivered for each
EventsFor(i) == {e \in DOMAIN events : events[e].processed_files = i + 1}

\* the indices at which the emission policy asks for an event
DueAt(i) == i % chunk_size = 0 \/ i = Len(paths) - 1

\* C1: a call with chunk_size >= 1 in which no emission fails emits exactly
\* one event for each index i with i mod k = 0 or i = n - 1 and none for any
\* other index; index 0 and index n - 1 emit when n >= 1, nothing is
\* emitted when n = 0.
C1_EmissionPolicy ==
    (vpc = "done" /\ chunk_size >= 1) =>
        /\ \A i \in 0 .. Len(paths) - 1 :
              Cardinality(EventsFor(i)) = IF DueAt(i) THEN 1 ELSE 0
        /\ \A e \in DOMAIN events :
              events[e].processed_files \in 1 .. Len(paths)
        /\ Len(paths) >= 1 =>
              /\ EventsFor(0) # {}
              /\ EventsFor(Len(paths) - 1) # {}
        /\ Len(paths) = 0 => events = <<>>

\* a finished call of three paths with stride 3: index 0 emits by the
\* stride, index 2 only because it is last, index 1 does not emit
C1_Witness ==
    /\ vpc = "done" /\ Len(paths) = 3 /\ chunk_size = 3
    /\ Len(events) = 2
    /\ EventsFor(1) = {}

\* C2: when no emission fails the call returns exactly len(paths) records,
\* the i-th of which carries paths[i].
C2_OneRecordPerPath ==
    vpc = "done" =>
        /\ vret.tag = "Ok"
        /\ Len(vret.val) = Len(paths)
        /\ \A j \in 1 .. Len(paths) : vret.val[j].path = paths[j]

\* a finished call whose input names the same path twice
C2_Witness ==
    /\ vpc = "done" /\ Len(paths) = 3
    /\ paths[1] = paths[2] /\ paths[3] # paths[1]
    /\ vret.val[1] = vret.val[2]

\* the state in which the emission at index idx has failed
EmissionFailed == vpc = "failed"

\* C3: when the emission at index i fails the call ends at once with an
\* error: path i and the later paths are not validated, no later event is
\* emitted, the caller gets the error and no list; nothing happens after.
C3_EmissionFailureAborts ==
    /\ [](EmissionFailed =>
            /\ vret.tag = "Err"
            /\ Len(results) = idx
            /\ \A j \in 1 .. Len(results) : results[j].path = paths[j]
            /\ \A e \in DOMAIN events : events[e].processed_files <= idx)
    /\ [][~EmissionFailed]_vars

\* the emission at index 2 fails after two paths were validated and one
\* event was delivered
C3_Witness ==
    /\ vpc = "failed" /\ idx = 2 /\ Len(paths) = 3
    /\ Len(results) = 2 /\ Len(events) = 1
    /\ vret.tag = "Err"

\* what the filesystem holds at a path: "missing", or its size
Present(path) ==
    /\ NodeOf(path) # NoNode
    /\ fs[NodeOf(path)].kind \notin {"absent", "err"}

\* C4: a path that fails validation is recorded with success = false and
\* does not end the call: an error is returned only when an emission that
\* was due at the current index was not delivered, and the paths after a
\* failing one are validated too.
C4_ValidationFailureIsData ==
    /\ vret.tag = "Err" =>
          /\ idx < Len(paths)
          /\ DueAt(idx)
          /\ EventsFor(idx) = {}
    /\ vpc \in {"loop", "done"} => Len(results) = idx
    /\ vpc = "done" => Len(vret.val) = Len(paths)
    /\ \A j \in 1 .. Len(results) :
          /\ ~Present(results[j].path) => ~results[j].success
          /\ ~results[j].success <=> results[j].error # None

\* a finished call whose first path failed validation and whose last
\* path passed
C4_Witness ==
    /\ vpc = "done" /\ Len(paths) = 3
    /\ ~vret.val[1].success /\ vret.val[1].error # None
    /\ vret.val[3].success

\* the size of what a path names (a directory's is that of its inode)
TrueSize(path) ==
    LET n == NodeOf(path) IN
    IF fs[n].kind \in {"dir", "dir_locked"} THEN 4096 ELSE fs[n].size

\* the reason the stated rule gives for a path; None when it passes
StatedReason(path) ==
    IF ~Present(path) THEN Some("File does not exist")
    ELSE IF TrueSize(path) = 0 THEN Some("File is empty")
    ELSE IF ~metadata(path).ok
         THEN Some("Failed to read file metadata: " \o metadata(path).err)
         ELSE None

\* C5: a path passes exactly when it exists and its size is not zero;
\* otherwise the reason is "File does not exist" if the path is missing,
\* else "File is empty" if its size is 0, else "Failed to read file
\* metadata: <cause>" if the metadata read failed.
C5_ReasonPriority ==
    \A j \in 1 .. Len(results) :
        /\ results[j].error = StatedReason(results[j].path)
        /\ results[j].success <=> StatedReason(results[j].path) = None


----------------------------------------------------------------------------
(* Properties of read_dir and find_book_files *)

\* C6: when the scope does not allow the root, read_dir fails with the
\* "Permission denied" error and opens no directory, in either mode; the
\* scope is asked once, about the root only, before any traversal.
C6_ScopeGate ==
    /\ ~is_allowed(RootPath) =>
          /\ rdOpened = {} /\ rdIter = <<>> /\ files = <<>>
          /\ rdPc \in {"idle", "scope", "done"}
          /\ rdPc = "done" =>
                rdRet = Err("Permission denied: Path not in filesystem scope")
    /\ Len(scope_checks) <= 1
    /\ \A k \in DOMAIN scope_checks : scope_checks[k] = RootPath
    /\ (rdOpened # {} \/ rdIter # <<>> \/ rdPc \in {"walk", "open", "list"})
          => scope_checks = <<RootPath>>

\* a recursive scan of a directory that has an entry, refused by the scope
C6_Witness ==
    /\ rdPc = "done" /\ ~is_allowed(RootPath) /\ recursive
    /\ fs[0].kind = "dir" /\ fs[1].kind = "file"
    /\ rdRet.tag = "Err" /\ rdOpened = {}

\* the regular files a scan comes to: the direct entries of the root, and
\* in recursive mode the root itself and what lies under directories that
\* can be opened
Reached(n) ==
    /\ fs[n].kind = "file"
    /\ \A a \in Ancestors(n) : fs[a].kind = "dir"
    /\ IF recursive THEN TRUE ELSE parent(n) = 0

\* the extension rule: no filter, or the wildcard, or the final extension
\* of the name is in the set, letter case aside on both sides
Matches(path) ==
    \/ extensions = {}
    \/ Star \in extensions
    \/ /\ extension(path) # None
       /\ \E x \in extensions :
             to_lowercase(x) = to_lowercase(extension(path)[1])

\* how many entries of a result carry the path
Occurrences(fls, path) == Cardinality({k \in DOMAIN fls : fls[k].path = path})

\* C7: for an allowed root, a regular file the scan reaches is in the
\* result exactly once if the extension set is empty, or holds "*", or
\* holds the file's final extension (case-insensitively on both sides),
\* and is not in the result otherwise.
C7_ExtensionFilter ==
    (rdPc = "done" /\ rdRet.tag = "Ok") =>
        \A n \in Nodes :
            Reached(n) =>
                Occurrences(rdRet.val, PathOf(n)) =
                    IF Matches(PathOf(n)) THEN 1 ELSE 0

\* a scan with the filter {"EPUB", "jpg"} that returns a.epub and leaves
\* out a file without extension
C7_Witness ==
    /\ rdPc = "done" /\ rdRet.tag = "Ok"
    /\ extensions = {<<"E","P","U","B">>, <<"j","p","g">>}
    /\ Reached(1) /\ Occurrences(rdRet.val, PathOf(1)) = 1
    /\ Reached(2) /\ extension(PathOf(2)) = None
    /\ Occurrences(rdRet.val, PathOf(2)) = 0

\* C8: read_dir with recursive = false returns only files that are direct
\* entries of the root: nothing from a subdirectory, and no directory.
C8_NonRecursiveIsShallow ==
    (rdPc # "idle" /\ ~recursive) =>
        \A k \in DOMAIN files :
            /\ Len(files[k].path) = Len(RootPath) + 1
            /\ NodeOf(files[k].path) \in {1, 2}
            /\ fs[NodeOf(files[k].path)].kind \notin {"dir", "dir_locked"}

\* a finished non-recursive scan of a tree whose subdirectory holds a file
\* that passes the filter: only the root's own file is returned
C8_Witness ==
    /\ rdPc = "done" /\ ~recursive /\ rdRet.tag = "Ok"
    /\ extensions = BookExtensions
    /\ fs[1].kind = "dir" /\ fs[3].kind = "file" /\ Matches(PathOf(3))
    /\ Len(rdRet.val) = 1 /\ rdRet.val[1].path = PathOf(2)

\* the messages of the I/O errors of the model
IoCauses == {"No such file or directory", "Permission denied", "Not a directory"}

\* C9: for an allowed root that is missing or cannot be opened,
\* non-recursive read_dir fails with "Failed to read directory: <cause>"
\* and returns no list; recursive read_dir never fails: it skips what errs,
\* the root included, goes on, and returns the files it could reach.
C9_RootFailure ==
    (rdPc = "done" /\ is_allowed(RootPath)) =>
        /\ (~recursive /\ fs[0].kind # "dir") =>
              /\ rdRet.tag = "Err"
              /\ \E c \in IoCauses :
                    rdRet.val = "Failed to read directory: " \o c
        /\ recursive =>
              /\ rdRet.tag = "Ok"
              /\ fs[0].kind \in {"absent", "dir_locked"} => rdRet.val = <<>>
              /\ \A n \in Nodes :
                    (Reached(n) /\ Matches(PathOf(n))) =>
                        Occurrences(rdRet.val, PathOf(n)) >= 1

\* a recursive scan of a missing root ends with an empty list
C9_Witness ==
    /\ rdPc = "done" /\ is_allowed(RootPath) /\ recursive
    /\ fs[0].kind = "absent"
    /\ rdRet = Ok(<<>>)

\* the set of the elements of a sequence
Range(sq) == {sq[k] : k \in DOMAIN sq}

\* C10: find_book_files returns the same set of paths as read_dir(root,
\* recursive = true, {epub, pdf, mobi, azw3, txt}) on an allowed root: the
\* files under the root whose final extension is one of these.
C10_FindEqualsRecursiveScan ==
    (/\ fbPc = "done" /\ rdPc = "done"
     /\ is_allowed(RootPath) /\ recursive /\ extensions = BookExtensions) =>
        /\ rdRet.tag = "Ok" /\ fbRet.tag = "Ok"
        /\ Range(fbRet.val) = {rdRet.val[k].path : k \in DOMAIN rdRet.val}
        /\ \A p \in Range(fbRet.val) : fs[NodeOf(p)].kind = "file"

----------------------------------------------------------------------------
(* Further properties of find_book_files and validate_book_files *)

\* the entries a walk comes to: those that are there, under directories
\* that can be opened
WalkReaches(n) ==
    /\ fs[n].kind \notin {"absent", "err"}
    /\ \A a \in Ancestors(n) : fs[a].kind = "dir"

\* C11: find_book_files never returns an error: whatever the root and the
\* tree, it returns a list, leaving out what cannot be read and going on
\* with the rest.
C11_FindNeverFails ==
    /\ fbRet.tag \in {"none", "Ok"}
    /\ fbPc = "done" =>
          /\ fbRet.tag = "Ok"
          /\ \A n \in Nodes :
                (WalkReaches(n) /\ IsBookPath(PathOf(n))) =>
                    PathOf(n) \in Range(fbRet.val)
          /\ ~WalkReaches(0) => fbRet.val = <<>>

\* a finished search of a tree whose first entry is a directory that cannot
\* be opened: the book file listed after it is still found
C11_Witness ==
    /\ fbPc = "done" /\ fbRet.tag = "Ok"
    /\ fs[1].kind = "dir_locked"
    /\ fs[2].kind = "file" /\ IsBookPath(PathOf(2))
    /\ fbRet.val = <<PathOf(2)>>

\* C12: within one call the progress events carry strictly increasing
\* processedFiles, the same totalFiles = len(paths), and
\* 1 <= processedFiles <= totalFiles.
C12_ProgressOrder ==
    /\ \A e \in DOMAIN events :
          /\ events[e].total_files = Len(paths)
          /\ events[e].processed_files >= 1
          /\ events[e].processed_files <= events[e].total_files
    /\ \A e \in 1 .. Len(events) - 1 :
          events[e].processed_files < events[e + 1].processed_files

\* a call of three paths with stride 1 that has emitted its three events
C12_Witness ==
    /\ Len(paths) = 3 /\ chunk_size = 1 /\ Len(events) = 3
    /\ events[1].processed_files = 1 /\ events[3].processed_files = 3

\* C15: the event of index i is emitted before path i is validated: when it
\* is emitted exactly i results are recorded, and it reports
\* processedFiles = i + 1 and currentFile = the last component of paths[i].
C15_EmitBeforeValidate ==
    [][events' # events =>
          /\ Len(events') = Len(events) + 1
          /\ results' = results
          /\ Len(results) = idx
          /\ LET ev == events'[Len(events')]
                 path == paths[idx + 1]
             IN  /\ ev.processed_files = idx + 1
                 /\ ev.current_file = path[Len(path)]]_vars

\* the event of index 2 has been emitted and path 2 is about to be
\* validated: two results are recorded
C15_Witness ==
    /\ vpc = "validate" /\ idx = 2
    /\ Len(results) = 2
    /\ events # <<>> /\ events[Len(events)].processed_files = 3
\* the (path, size) entries of a returned list
EntriesOf(ret) == {ret.val[k] : k \in DOMAIN ret.val}

\* C16: for an allowed root directory without subdirectories, read_dir
\* returns the same set of (path, size) entries with recursive = true as with
\* recursive = false, for every filter and every kind of entry.
C16_ModesAgreeOnFlatDirectory ==
    (/\ rdPc = "done" /\ rdPrev.called
     /\ is_allowed(RootPath)
     /\ rdPrev.recursive # recursive /\ rdPrev.extensions = extensions
     /\ fs[0].kind = "dir"
     /\ \A n \in {1, 2} : fs[n].kind \notin {"dir", "dir_locked"}) =>
        /\ rdRet.tag = "Ok" /\ rdPrev.ret.tag = "Ok"
        /\ EntriesOf(rdRet) = EntriesOf(rdPrev.ret)
----------------------------------------------------------------------------
(* The discover-then-validate pipeline *)

\* Idle (0), Discovering (1), discovered (2), Validating (3), Done (4)
Phase ==
    IF vpc \in {"done", "failed"} THEN 4
    ELSE IF vpc \in {"loop", "validate"} THEN 3
    ELSE IF fbPc = "done" THEN 2
    ELSE IF fbPc = "walk" THEN 1
    ELSE 0

\* C13: with chunkSize >= 1 the pipeline always comes to an end:
\* validate_book_files has returned the full list or has aborted on an
\* emission error; the work is bounded by the entries and the paths, and
\* no phase is entered again.
C13_PipelineTerminates ==
    /\ <>(vpc \in {"done", "failed"})
    /\ [](vpc = "done" => (vret.tag = "Ok" /\ Len(vret.val) = Len(paths)))
    /\ [](vpc = "failed" => vret.tag = "Err")
    /\ [](idx <= Len(paths) /\ Len(fbFiles) <= Cardinality(Nodes))
    /\ [][Phase' >= Phase]_vars

\* the pipeline has ended after validating the three paths it discovered
C13_Witness ==
    /\ vpc = "done" /\ fbPc = "done"
    /\ paths = fbRet.val /\ Len(paths) = 3
    /\ Len(vret.val) = 3

\* the events of the window that call c emitted, in the order of emission
OwnEvents(c) ==
    LET own == SelectSeq(window, LAMBDA w : w.call = c)
    IN  [j \in 1 .. Len(own) |-> own[j].event]

\* what a call given (ps, k) emits and returns when nothing else runs: the
\* events of the due positions in increasing order, one record per path
AloneEvents(ps, k) ==
    LET all == [j \in 1 .. Len(ps) |->
                   ImportProgress(Len(ps), j, CurrentFile(ps[j]))]
    IN  SelectSeq(all, LAMBDA e : \/ (e.processed_files - 1) % k = 0
                                  \/ e.processed_files = Len(ps))
AloneResults(ps) == [j \in 1 .. Len(ps) |-> ValidationOf(ps[j])]
AloneFound == {PathOf(n) : n \in {m \in Nodes : WalkReaches(m) /\ IsBookPath(PathOf(m))}}

IsPrefix(s, t) == Len(s) <= Len(t) /\ \A j \in 1 .. Len(s) : s[j] = t[j]

=============================================================================
